---- MODULE Spec2Model ----
(***************************************************************************)
(* Comp tree of the openblocks query editor: the MongoQuery tagged union   *)
(* (comps/queries/mongoQuery), the LibraryQuery node with its InputsComp   *)
(* dynamic map and the query-library record fetch (libraryQuery.tsx).      *)
(* LibraryQuery.reduce is modelled twice: on values, for what a node       *)
(* holds, and on a heap of objects, for which object holds it.             *)
(*                                                                         *)
(* JavaScript values are modelled as follows.  A string is a TLA+ string.  *)
(* A plain object is an ordered sequence of entries [k |-> key, v |-> val] *)
(* in property order (keys used here are never integer-like, so property   *)
(* order is insertion order).  `undefined` is the string Undefined.        *)
(***************************************************************************)
EXTENDS Integers, Sequences, FiniteSets, TLC

VARIABLES
  mq,        \* the MongoQuery node
  mqPrev,    \* the node the last action was dispatched to
  mqAction,  \* the last action dispatched to the MongoQuery
  mqWrite,   \* isWrite(mqAction)
  mqView,    \* mq.getView()
  ic,        \* an InputsComp node
  icDelta,   \* the keys the last setInputs call kept, added and dropped
  icOp,      \* the last operation applied: "new", "setInputs", "reduce"
  icLast,    \* the inputs of the most recent setInputs call, if any
  icGone,    \* the keys some setInputs call has dropped
  lq,        \* the LibraryQuery node
  lqGiven,   \* the value the LibraryQuery was constructed from
  lqEvent,   \* the last event handled, and whether it was about the current selection
  mounted,   \* whether the PropertyView of lq is mounted
  queryLibraryRecord, \* the record documents of the redux store, per selection
  pending,   \* the selections whose fetch is in flight
  lqJson,    \* lq.toJsonValue()
  rd,        \* the last call of lq.reduce: the action, the heap before and after
             \* it, the reference it returned, whether the action was rejected
  repository,  \* the organization documents
  datasources, \* the datasources datasourceService created
  groups,      \* the groups groupService created
  members,     \* the memberships orgMemberService added
  assets,      \* the assets assetService stores
  call,        \* the last call of the organization service and how far it got
  counters     \* how many organizations and assets were given to the stores

mongoVars == <<mq, mqPrev, mqAction, mqWrite, mqView>>

inputsVars == <<ic, icDelta, icOp, icLast, icGone>>

libraryVars == <<lq, lqGiven, lqEvent, mounted, queryLibraryRecord, pending, lqJson>>

reduceVars == <<rd>>

orgVars == <<repository, datasources, groups, members, assets, call, counters>>

vars == <<mq, mqPrev, mqAction, mqWrite, mqView, ic, icDelta, icOp, icLast, icGone,
          lq, lqGiven, lqEvent, mounted, queryLibraryRecord, pending, lqJson, rd,
          repository, datasources, groups, members, assets, call, counters>>

(***************************************************************************)
(* Bounds                                                                  *)
(***************************************************************************)
\* number of distinct non-default texts a user types into a code field
NumTexts == 1

TextPool == <<"x", "y", "z", "w">>

Texts == {TextPool[i] : i \in 1..NumTexts}

\* length of the longest inputs list of a record document
MaxInputs == 2

\* number of entries of the largest saved inputs value
MaxSaved == 1

\* number of fetches that can be in flight together
MaxPending == 2

Undefined == "<undefined>"

\* the input names the library queries declare
InputNames == {"a", "b", "c"}

(***************************************************************************)
(* Plain objects                                                           *)
(***************************************************************************)
Entry(key, val) == [k |-> key, v |-> val]

Keys(o) == {o[i].k : i \in DOMAIN o}

KeySeq(o) == [i \in DOMAIN o |-> o[i].k]

Has(o, key) == key \in Keys(o)

\* o[key]; undefined when the property is absent
Get(o, key) ==
  IF Has(o, key) THEN (CHOOSE e \in {o[i] : i \in DOMAIN o} : e.k = key).v
  ELSE Undefined

\* o[key] = val : an existing property keeps its place, a new one is appended
Put(o, key, val) ==
  IF Has(o, key) THEN [i \in DOMAIN o |-> IF o[i].k = key THEN Entry(key, val) ELSE o[i]]
  ELSE Append(o, Entry(key, val))

\* { ...a, ...b }
RECURSIVE Spread(_, _)
Spread(a, b) ==
  IF b = <<>> THEN a ELSE Spread(Put(a, Head(b).k, Head(b).v), Tail(b))

\* a ?? b
Nullish(a, b) == IF a = Undefined THEN b ELSE a

(***************************************************************************)
(* Actions of openblocks-core                                              *)
(***************************************************************************)
StrVal(s) == [t |-> "str", s |-> s]

ObjVal(o) == [t |-> "obj", o |-> o]

changeValueAction(value) == [type |-> "CHANGE_VALUE", path |-> <<>>, value |-> value]

wrapChildAction(childName, action) ==
  [action EXCEPT !.path = <<childName>> \o action.path]

changeChildAction(childName, value) ==
  wrapChildAction(childName, changeValueAction(value))

\* an action that carries no value field
executeQueryAction == [type |-> "EXECUTE_QUERY", path |-> <<>>]

(***************************************************************************)
(* MongoQuery: the command table                                           *)
(***************************************************************************)
CommandOptions ==
  <<"FIND", "INSERT", "UPDATE", "DELETE", "COUNT", "DISTINCT", "AGGREGATE", "RAW">>

LimitOptions == <<"SINGLE", "ALL">>

Range(s) == {s[i] : i \in DOMAIN s}

Field(name, ctrl) == [name |-> name, ctrl |-> ctrl]

InsertSchema == <<Field("documents", "ParamsJsonControl")>>

\* the command table with a query field left over in INSERT
CommandMapStrayQuery ==
  [FIND      |-> <<Field("query", "ParamsJsonControl"),
                   Field("projection", "ParamsJsonControl"),
                   Field("limit", "ParamsPositiveNumberControl"),
                   Field("skip", "ParamsPositiveNumberControl"),
                   Field("sort", "ParamsJsonControl")>>,
   INSERT    |-> <<Field("query", "ParamsJsonControl")>> \o InsertSchema,
   UPDATE    |-> <<Field("query", "ParamsJsonControl"),
                   Field("update", "ParamsJsonControl"),
                   Field("limit", "LimitDropdown")>>,
   DELETE    |-> <<Field("query", "ParamsJsonControl"),
                   Field("limit", "LimitDropdown")>>,
   COUNT     |-> <<Field("query", "ParamsJsonControl")>>,
   DISTINCT  |-> <<Field("query", "ParamsJsonControl"),
                   Field("key", "ParamsStringControl")>>,
   AGGREGATE |-> <<Field("arrayPipelines", "ParamsJsonControl"),
                   Field("limit", "ParamsPositiveNumberControl")>>,
   RAW       |-> <<Field("command", "ParamsJsonControl")>>]

\* the schema registered for each command: its fields in declaration order
CommandMap ==
  [FIND      |-> <<Field("query", "ParamsJsonControl"),
                   Field("projection", "ParamsJsonControl"),
                   Field("limit", "ParamsPositiveNumberControl"),
                   Field("skip", "ParamsPositiveNumberControl"),
                   Field("sort", "ParamsJsonControl")>>,
   INSERT    |-> InsertSchema,
   UPDATE    |-> <<Field("query", "ParamsJsonControl"),
                   Field("update", "ParamsJsonControl"),
                   Field("limit", "LimitDropdown")>>,
   DELETE    |-> <<Field("query", "ParamsJsonControl"),
                   Field("limit", "LimitDropdown")>>,
   COUNT     |-> <<Field("query", "ParamsJsonControl")>>,
   DISTINCT  |-> <<Field("query", "ParamsJsonControl"),
                   Field("key", "ParamsStringControl")>>,
   AGGREGATE |-> <<Field("arrayPipelines", "ParamsJsonControl"),
                   Field("limit", "ParamsPositiveNumberControl")>>,
   RAW       |-> <<Field("command", "ParamsJsonControl")>>]

\* the value a control holds when it is constructed without a value
ControlDefault(ctrl) == IF ctrl = "LimitDropdown" THEN "SINGLE" ELSE ""

\* the values the editor of a control can produce
ControlInputs(ctrl) ==
  IF ctrl = "LimitDropdown" THEN Range(LimitOptions) ELSE Texts \cup {""}

\* new Ctor({ value }) of a leaf control
NewControl(ctrl, value) == Nullish(value, ControlDefault(ctrl))

\* buildQueryCommand(schema): one child per field, from the field's sub-value
BuildCommand(schema, value) ==
  [i \in DOMAIN schema |->
     Entry(schema[i].name, NewControl(schema[i].ctrl, Get(value, schema[i].name)))]

\* view of a command: one entry per field, keyed by the field name
CommandView(comp) == [i \in DOMAIN comp |-> [key |-> comp[i].k, value |-> comp[i].v]]

DefaultCompType == "FIND"

\* new MongoQuery({ value })
NewMongoQuery(value) ==
  LET compType == Nullish(Get(value, "compType"), DefaultCompType)
      compValue == IF Has(value, "comp") THEN Get(value, "comp") ELSE <<>>
  IN [compType   |-> compType,
      comp       |-> BuildCommand(CommandMap[compType], compValue),
      collection |-> NewControl("ParamsStringControl", Get(value, "collection"))]

MongoToJsonValue(node) ==
  <<Entry("compType", node.compType), Entry("comp", node.comp),
    Entry("collection", node.collection)>>

\* reduce that rebuilds every child, the collection too, from the value of
\* an action addressed to the node
MongoReduceRebuildingAll(node, action) ==
  IF "value" \in DOMAIN action /\ action.path = <<>> /\ action.value.t = "obj"
  THEN NewMongoQuery(action.value.o)
  ELSE IF "value" \in DOMAIN action /\ action.path = <<"collection">>
          /\ action.value.t = "str"
  THEN [node EXCEPT !.collection = action.value.s]
  ELSE IF "value" \in DOMAIN action /\ Len(action.path) = 2 /\ action.path[1] = "comp"
          /\ Has(node.comp, action.path[2]) /\ action.value.t = "str"
  THEN [node EXCEPT !.comp = Put(node.comp, action.path[2], action.value.s)]
  ELSE node

\* MongoQueryTmp.reduce
MongoReduce(node, action) ==
  IF "value" \notin DOMAIN action THEN node
  ELSE IF action.path = <<>> THEN
    \* change of discriminator: new compType, payload rebuilt from value.comp
    IF action.value.t = "obj" THEN
      LET compType == Nullish(Get(action.value.o, "compType"), DefaultCompType)
          compValue == IF Has(action.value.o, "comp") THEN Get(action.value.o, "comp")
                       ELSE <<>>
      IN [node EXCEPT !.compType = compType,
                      !.comp = BuildCommand(CommandMap[compType], compValue)]
    ELSE node
  ELSE IF action.path = <<"collection">> /\ action.value.t = "str" THEN
    [node EXCEPT !.collection = action.value.s]
  ELSE IF Len(action.path) = 2 /\ action.path[1] = "comp"
          /\ Has(node.comp, action.path[2]) /\ action.value.t = "str" THEN
    [node EXCEPT !.comp = Put(node.comp, action.path[2], action.value.s)]
  ELSE node \* routed to a child that does not exist: rejected

WriteCommands == <<"INSERT", "UPDATE", "DELETE", "RAW">>

\* lodash includes(collection, value)
includes(collection, value) == value \in Range(collection)

\* action.value["compType"]
ValueCompType(value) == IF value.t = "obj" THEN Get(value.o, "compType") ELSE Undefined

\* isWrite with a write list that lacks RAW
isWriteWithoutRaw(action) ==
  "value" \in DOMAIN action
  /\ includes(<<"INSERT", "UPDATE", "DELETE">>, ValueCompType(action.value))

isWrite(action) ==
  "value" \in DOMAIN action /\ includes(WriteCommands, ValueCompType(action.value))

\* getView that lists the payload before the collection
MongoGetViewPayloadFirst(node) ==
  CommandView(node.comp) \o <<[key |-> "collection", value |-> node.collection]>>

\* MongoQuery.getView: the params handed to toQueryView
MongoGetView(node) ==
  <<[key |-> "collection", value |-> node.collection]>> \o CommandView(node.comp)

\* onChange that carries the payload of the command being left
CommandOnChangeKeepComp(node, value) ==
  changeValueAction(ObjVal(<<Entry("compType", value), Entry("comp", node.comp)>>))

\* onChange of the Commands dropdown
CommandOnChange(node, value) ==
  changeValueAction(ObjVal(<<Entry("compType", value), Entry("comp", <<>>)>>))

(***************************************************************************)
(* MongoQuery: the state machine                                           *)
(***************************************************************************)
MongoDispatch(action) ==
  /\ mq' = MongoReduce(mq, action)
  /\ mqPrev' = mq
  /\ mqAction' = action
  /\ mqWrite' = isWrite(action)
  /\ mqView' = MongoGetView(mq')

SelectCommand ==
  \E value \in Range(CommandOptions) : MongoDispatch(CommandOnChange(mq, value))

FieldNames == UNION {{CommandMap[c][i].name : i \in DOMAIN CommandMap[c]} : c \in DOMAIN CommandMap}

FieldCtrl(node, name) ==
  (CHOOSE f \in Range(CommandMap[node.compType]) : f.name = name).ctrl

\* a control of the command's property view dispatches its new value
EditField ==
  \E name \in Keys(mq.comp) :
    \E v \in ControlInputs(FieldCtrl(mq, name)) :
      MongoDispatch(wrapChildAction("comp", changeChildAction(name, StrVal(v))))

\* an action routed to a payload field of another command
EditForeignField ==
  \E name \in FieldNames \ Keys(mq.comp) :
    \E v \in Texts :
      MongoDispatch(wrapChildAction("comp", changeChildAction(name, StrVal(v))))

EditCollection ==
  \E v \in Texts \cup {""} : MongoDispatch(changeChildAction("collection", StrVal(v)))

ExecuteQuery == MongoDispatch(executeQueryAction)

MongoNext ==
  \/ SelectCommand
  \/ EditField
  \/ EditForeignField
  \/ EditCollection
  \/ ExecuteQuery

(***************************************************************************)
(* MongoQuery: properties                                                  *)
(***************************************************************************)
IsCommandChange(action) ==
  action.type = "CHANGE_VALUE" /\ action.path = <<>> /\ action.value.t = "obj"

SchemaNames(c) == [i \in DOMAIN CommandMap[c] |-> CommandMap[c][i].name]

\* C1: after the change-discriminator action to command B, whatever command A
\* and payload the node had before, the node is B and every field of its
\* payload holds the default of the B schema, also a field that A has too
C1_SwapClearsPayload ==
  IsCommandChange(mqAction) =>
    LET B == ValueCompType(mqAction.value)
    IN /\ mq.compType = B
       /\ Len(mq.comp) = Len(CommandMap[B])
       /\ \A i \in DOMAIN CommandMap[B] :
            /\ mq.comp[i].k = CommandMap[B][i].name
            /\ mq.comp[i].v = ControlDefault(CommandMap[B][i].ctrl)

\* FIND with query and limit filled in has just been switched to UPDATE
C1_Witness ==
  /\ IsCommandChange(mqAction)
  /\ mqPrev.compType = "FIND"
  /\ Get(mqPrev.comp, "query") \in Texts
  /\ Get(mqPrev.comp, "limit") \in Texts
  /\ mq.compType = "UPDATE"

\* C8: exactly one command is active and the payload has exactly the fields
\* of the schema CommandMap registers for it (INSERT: documents only); a
\* change of documents under INSERT shows in toJsonValue() with compType INSERT
C8_PayloadMatchesDiscriminator ==
  /\ mq.compType \in DOMAIN CommandMap
  /\ KeySeq(mq.comp) = SchemaNames(mq.compType)
  /\ mq.compType = "INSERT" => KeySeq(mq.comp) = <<"documents">>
  /\ (mqPrev.compType = "INSERT" /\ mqAction.path = <<"comp", "documents">>) =>
       /\ Get(MongoToJsonValue(mq), "compType") = "INSERT"
       /\ Get(Get(MongoToJsonValue(mq), "comp"), "documents") = mqAction.value.s

\* the documents of an INSERT reached from FIND have been edited
C8_Witness ==
  /\ mq.compType = "INSERT"
  /\ mqAction.path = <<"comp", "documents">>
  /\ Get(mq.comp, "documents") \in Texts

\* C9: getView() is the collection entry followed by one entry per field of
\* the active command, in schema order, and has no entry keyed compType
C9_GetViewMerges ==
  /\ Len(mqView) = 1 + Len(CommandMap[mq.compType])
  /\ mqView[1] = [key |-> "collection", value |-> mq.collection]
  /\ \A i \in DOMAIN CommandMap[mq.compType] :
       mqView[i + 1] = [key |-> CommandMap[mq.compType][i].name,
                        value |-> Get(mq.comp, CommandMap[mq.compType][i].name)]
  /\ \A i \in DOMAIN mqView : mqView[i].key # "compType"

\* a view of UPDATE with collection, query and limit filled in
C9_Witness ==
  /\ mq.compType = "UPDATE"
  /\ mq.collection \in Texts
  /\ Get(mq.comp, "query") \in Texts
  /\ Get(mq.comp, "limit") = "ALL"
  /\ Len(mqView) = 4

\* C10: the write list names commands of CommandMap only; an action whose
\* value carries compType K is a write exactly for INSERT, UPDATE, DELETE,
\* RAW and a read for FIND, COUNT, DISTINCT, AGGREGATE; an action without a
\* value is not a write
C10_WriteListInSync ==
  /\ Range(WriteCommands) \subseteq DOMAIN CommandMap
  /\ DOMAIN CommandMap = Range(CommandOptions)
  /\ "value" \notin DOMAIN mqAction => ~mqWrite
  /\ \A K \in DOMAIN CommandMap :
       ("value" \in DOMAIN mqAction /\ ValueCompType(mqAction.value) = K) =>
         /\ K \in {"INSERT", "UPDATE", "DELETE", "RAW"} => mqWrite
         /\ K \in {"FIND", "COUNT", "DISTINCT", "AGGREGATE"} => ~mqWrite

\* the last action selected the RAW command and was classified as a write
C10_Witness ==
  /\ IsCommandChange(mqAction)
  /\ ValueCompType(mqAction.value) = "RAW"
  /\ mqWrite

JSONValueDefault == ""

\* the non-default text a user types into the editor of an input
InputTexts == {"x"}

\* new JSONValueControl({ value })
NewJSONValueControl(value) == Nullish(value, JSONValueDefault)

InputItem(name) == [name |-> name, description |-> "about " \o name]

\* InputsComp.parseChildrenFromValue: one control per entry of params.value
InputsParseChildrenFromValue(value) ==
  [i \in DOMAIN value |-> Entry(value[i].k, NewJSONValueControl(value[i].v))]

\* new InputsComp(params); params.value ?? {} is kept in params
NewInputsComp(value) ==
  [params   |-> value,
   children |-> InputsParseChildrenFromValue(value),
   inputs   |-> <<>>]

\* simpleMultiComp.toJsonValue: every child's toJsonValue()
InputsToJsonValue(node) == node.children

\* the childrenMap setInputs builds: one constructor per name
RECURSIVE InputsChildrenMap(_)
InputsChildrenMap(inputs) ==
  IF inputs = <<>> THEN <<>>
  ELSE LET front == SubSeq(inputs, 1, Len(inputs) - 1)
       IN Put(InputsChildrenMap(front), inputs[Len(inputs)].name, "JSONValueControl")

\* parseChildrenFromValueAndChildrenMap: one child per key of childrenMap,
\* built from the key's value
parseChildrenFromValueAndChildrenMap(value, childrenMap) ==
  [i \in DOMAIN childrenMap |->
     Entry(childrenMap[i].k, NewJSONValueControl(Get(value, childrenMap[i].k)))]

\* setInputs that lets params.value win over the live children
setInputsParamsWin(node, inputs) ==
  [node EXCEPT
     !.children = parseChildrenFromValueAndChildrenMap(
                    Spread(InputsToJsonValue(node), node.params),
                    InputsChildrenMap(inputs)),
     !.inputs = inputs]

\* setInputs that builds the children from the live children alone
setInputsLiveOnly(node, inputs) ==
  [node EXCEPT
     !.children = parseChildrenFromValueAndChildrenMap(
                    InputsToJsonValue(node), InputsChildrenMap(inputs)),
     !.inputs = inputs]

\* setInputs that keeps a child for every key of the merged value
setInputsKeepAll(node, inputs) ==
  LET value == Spread(node.params, InputsToJsonValue(node))
  IN [node EXCEPT
        !.children = parseChildrenFromValueAndChildrenMap(
                       value, Spread(value, InputsChildrenMap(inputs))),
        !.inputs = inputs]

\* InputsComp.setInputs
setInputs(node, inputs) ==
  [node EXCEPT
     !.children = parseChildrenFromValueAndChildrenMap(
                    Spread(node.params, InputsToJsonValue(node)),
                    InputsChildrenMap(inputs)),
     !.inputs = inputs]

\* reduce of an action routed to the child action.path[1]
InputsReduce(node, action) ==
  IF /\ "value" \in DOMAIN action
     /\ Len(action.path) = 1
     /\ Has(node.children, action.path[1])
     /\ action.value.t = "str"
  THEN [node EXCEPT !.children = Put(node.children, action.path[1], action.value.s)]
  ELSE node

\* InputsComp.getPropertyView: the placeholder when the inputs list is
\* empty, else one item per item of the list: the editor of the child of
\* that name under the key name, or null when there is no such child
InputsGetPropertyView(node) ==
  IF Len(node.inputs) = 0 THEN [t |-> "noInput"]
  ELSE [t |-> "editors",
        items |-> [i \in DOMAIN node.inputs |->
                     IF ~Has(node.children, node.inputs[i].name) THEN [t |-> "null"]
                     ELSE [t       |-> "editor",
                           key     |-> node.inputs[i].name,
                           label   |-> node.inputs[i].name,
                           tooltip |-> node.inputs[i].description,
                           value   |-> Get(node.children, node.inputs[i].name)]]]

\* LibraryQuery.getView: one entry per entry of the children of its inputs
\* child, in the order of Object.entries
LibraryGetView(inputs) ==
  [i \in DOMAIN inputs.children |->
     [key |-> inputs.children[i].k, value |-> inputs.children[i].v]]

(***************************************************************************)
(* InputsComp: the state machine                                           *)
(***************************************************************************)
\* sequences of at most n elements of S
SeqUpTo(S, n) == UNION {[1..m -> S] : m \in 0..n}

NoRepeat(q) == \A i, j \in DOMAIN q : q[i] = q[j] => i = j

\* the lists of inputs a record document can declare: up to MaxInputs
\* names, or one name declared twice
InputLists ==
  {[i \in DOMAIN q |-> InputItem(q[i])] :
     q \in {r \in SeqUpTo(InputNames, MaxInputs) : NoRepeat(r)}
            \cup {<<k, k>> : k \in InputNames}}

\* the input names in the order a saved value lists them
NameOrder == <<"a", "b", "c">>

Position(name) == CHOOSE i \in DOMAIN NameOrder : NameOrder[i] = name

Ascending(q) == \A i, j \in DOMAIN q : i < j => Position(q[i]) < Position(q[j])

\* the saved values an InputsComp can be constructed from
SavedInputs ==
  UNION {{[i \in DOMAIN ks |-> Entry(ks[i], vs[i])] :
            vs \in [DOMAIN ks -> InputTexts \cup {""}]} :
         ks \in {q \in SeqUpTo(InputNames, MaxSaved) : Ascending(q)}}

NoDelta == [kept |-> {}, added |-> {}, dropped |-> {}]

Names(inputs) == {inputs[i].name : i \in DOMAIN inputs}

SetInputs ==
  \E inputs \in InputLists :
    /\ ic' = setInputs(ic, inputs)
    /\ icDelta' = [kept    |-> Keys(ic.children) \cap Keys(ic'.children),
                   added   |-> Keys(ic'.children) \ Keys(ic.children),
                   dropped |-> Keys(ic.children) \ Keys(ic'.children)]
    /\ icOp' = "setInputs"
    /\ icLast' = [called |-> TRUE, inputs |-> inputs]
    /\ icGone' = icGone \cup (Keys(ic.children) \ Keys(ic'.children))

\* the editor of a child, or any other client, dispatches a new value for key k
EditInput ==
  \E k \in InputNames, v \in InputTexts \cup {""} :
    /\ ic' = InputsReduce(ic, changeChildAction(k, StrVal(v)))
    /\ icDelta' = NoDelta
    /\ icOp' = "reduce"
    /\ UNCHANGED <<icLast, icGone>>

InputsNext ==
  \/ SetInputs
  \/ EditInput

(***************************************************************************)
(* InputsComp: properties                                                  *)
(***************************************************************************)
\* the value a child of key k gets when it is built from the saved value
SavedOrDefault(node, k) == NewJSONValueControl(Get(node.params, k))

\* C2 as stated: setInputs keeps the value of every key that stays, drops
\* the keys that are not named, and gives every key it adds the default
C2_AddedFromDefault ==
  [][icOp' = "setInputs" =>
       /\ Keys(ic'.children) = Names(icLast'.inputs)
       /\ \A k \in Keys(ic'.children) :
            Get(ic'.children, k) =
              IF k \in Keys(ic.children) THEN Get(ic.children, k) ELSE JSONValueDefault
    ]_vars

\* C2 amended: setInputs keeps the value of every key that stays, also an
\* edited one, drops the keys that are not named, and builds every key it
\* adds from the entry the saved value has for it, or from the default when
\* the saved value has none
C2_DynamicMapReuse ==
  [][icOp' = "setInputs" =>
       /\ Keys(ic'.children) = Names(icLast'.inputs)
       /\ \A k \in Keys(ic'.children) :
            Get(ic'.children, k) =
              IF k \in Keys(ic.children) THEN Get(ic.children, k)
              ELSE SavedOrDefault(ic, k)
    ]_vars

\* setInputs kept a key with an edited value, dropped a key and added a key
C2_Witness ==
  /\ icOp = "setInputs"
  /\ \E a \in icDelta.kept : Get(ic.children, a) # SavedOrDefault(ic, a)
  /\ icDelta.dropped # {}
  /\ icDelta.added # {}

\* C3: the child keys are the names of the most recent setInputs call, or
\* the keys of the construction value when setInputs was never called
C3_KeysFollowLastInputs ==
  Keys(ic.children) =
    IF icLast.called THEN Names(icLast.inputs) ELSE Keys(ic.params)

\* a child-routed action was reduced after a setInputs that changed the keys
C3_Witness ==
  /\ icLast.called
  /\ icOp = "reduce"
  /\ Keys(ic.children) # {}
  /\ Keys(ic.children) # Keys(ic.params)
  /\ \E k \in Keys(ic.children) : Get(ic.children, k) \in InputTexts

\* the keys the last setInputs call added after an earlier call dropped them
ReAdded == icDelta.added \cap icGone

\* C4 as stated: a key that was dropped and is added again gets a fresh
\* child, holding the default
C4_ReAddedIsFresh ==
  \A k \in ReAdded : Get(ic.children, k) = JSONValueDefault

\* C4 amended: a key that was dropped and is added again is built from the
\* entry the construction value has for it, and from the default when it has
\* none; no value it got from an edit comes back
C4_ReAddedFromSaved ==
  \A k \in ReAdded : Get(ic.children, k) = SavedOrDefault(ic, k)

\* a key of the construction value was dropped and added again, and one that
\* the construction value does not have as well
C4_Witness ==
  /\ \E k \in ReAdded : Has(ic.params, k) /\ Get(ic.children, k) \in InputTexts
  /\ \E k \in ReAdded : ~Has(ic.params, k)

IsEditor(item) == item.t = "editor"

\* the keys of the editors a property view lists, in its order
EditorKeys(view) ==
  IF view.t = "noInput" THEN <<>>
  ELSE LET editors == SelectSeq(view.items, IsEditor)
       IN [i \in DOMAIN editors |-> editors[i].key]

ViewKeys(view) == [i \in DOMAIN view |-> view[i].key]

NameSeq(inputs) == [i \in DOMAIN inputs |-> inputs[i].name]

\* the names of a list in the order of their first occurrence
RECURSIVE FirstOccurrences(_)
FirstOccurrences(names) ==
  IF names = <<>> THEN <<>>
  ELSE LET front == FirstOccurrences(SubSeq(names, 1, Len(names) - 1))
           last == names[Len(names)]
       IN IF \E i \in DOMAIN front : front[i] = last THEN front
          ELSE Append(front, last)

\* C14: after a setInputs call, LibraryQuery.getView() and
\* InputsComp.getPropertyView() list the keys in the order of the names of
\* the most recent call, each key once
C14_ViewsFollowKeyOrder ==
  icLast.called =>
    /\ ViewKeys(LibraryGetView(ic)) = FirstOccurrences(NameSeq(icLast.inputs))
    /\ EditorKeys(InputsGetPropertyView(ic)) = FirstOccurrences(NameSeq(icLast.inputs))

\* C15: getPropertyView() is the placeholder when the node has no child and
\* lists the editors of the children when it has one
C15_PlaceholderIffNoChildren ==
  /\ Keys(ic.children) = {} => InputsGetPropertyView(ic).t = "noInput"
  /\ Keys(ic.children) # {} =>
       /\ InputsGetPropertyView(ic).t = "editors"
       /\ EditorKeys(InputsGetPropertyView(ic)) # <<>>

(***************************************************************************)
(* LibraryQuery                                                            *)
(***************************************************************************)
UndefVal == [t |-> "undef"]

\* a value of the LibraryQuery schema
LibraryValue(queryId, recordId, inputs) ==
  [t |-> "obj", libraryQueryId |-> queryId, libraryQueryRecordId |-> recordId,
   inputs |-> inputs]

\* value?.[name] of a string field
ValueField(value, name) == IF value.t = "obj" THEN value[name] ELSE Undefined

\* value?.inputs
ValueInputs(value) == IF value.t = "obj" THEN value.inputs ELSE UndefVal

\* valueComp<string>(defaultValue) constructed from a value
valueComp(defaultValue, value) == Nullish(value, defaultValue)

\* a LibraryQuery whose constructor does not keep params.value
NewLibraryQueryValueLost(value) ==
  [libraryQueryId       |-> valueComp("", ValueField(value, "libraryQueryId")),
   libraryQueryRecordId |-> valueComp("latest", ValueField(value, "libraryQueryRecordId")),
   inputs               |-> NewInputsComp(IF ValueInputs(value).t = "obj"
                                          THEN ValueInputs(value).o ELSE <<>>),
   error                |-> "",
   isReady              |-> FALSE,
   value                |-> UndefVal]

\* new LibraryQuery(params): the children of childrenMap, isReady and value
NewLibraryQuery(value) ==
  [libraryQueryId       |-> valueComp("", ValueField(value, "libraryQueryId")),
   libraryQueryRecordId |-> valueComp("latest", ValueField(value, "libraryQueryRecordId")),
   inputs               |-> NewInputsComp(IF ValueInputs(value).t = "obj"
                                          THEN ValueInputs(value).o ELSE <<>>),
   error                |-> "",
   isReady              |-> FALSE,
   value                |-> value]

\* super.toJsonValue(): the persisted children; the error state is transient
LibrarySuperToJsonValue(node) ==
  [libraryQueryId       |-> node.libraryQueryId,
   libraryQueryRecordId |-> node.libraryQueryRecordId,
   inputs               |-> ObjVal(InputsToJsonValue(node.inputs))]

\* toJsonValue that does not look at isReady
LibraryToJsonValueIgnoringReady(node) == LibrarySuperToJsonValue(node)

\* LibraryQuery.toJsonValue
LibraryToJsonValue(node) ==
  IF node.isReady THEN LibrarySuperToJsonValue(node)
  ELSE [LibrarySuperToJsonValue(node) EXCEPT !.inputs = ValueInputs(node.value)]

customAction(value) == [type |-> "CUSTOM", path |-> <<>>, value |-> value]

isMyCustomAction(action, type) ==
  action.type = "CUSTOM" /\ action.path = <<>> /\ action.value.type = type

QueryLibraryUpdateAction(dsl) == customAction([type |-> "queryLibraryUpdate", dsl |-> dsl])

\* a record document declaring the inputs
Dsl(inputs) == [t |-> "dsl", inputs |-> inputs]

\* a record document without an inputs field
DslWithoutInputs == [t |-> "dsl"]

\* dsl?.["inputs"] ?? []
DslInputs(dsl) == IF dsl.t = "dsl" /\ "inputs" \in DOMAIN dsl THEN dsl.inputs ELSE <<>>

\* simpleMultiComp.reduce: an action routed to a child is reduced by the child
LibrarySuperReduce(node, action) ==
  IF "value" \notin DOMAIN action \/ action.path = <<>> THEN node
  ELSE IF action.path[1] = "inputs" THEN
    [node EXCEPT !.inputs = InputsReduce(node.inputs, [action EXCEPT !.path = Tail(action.path)])]
  ELSE IF Len(action.path) = 1 /\ action.type = "CHANGE_VALUE" /\ action.value.t = "str"
          /\ action.path[1] \in {"libraryQueryId", "libraryQueryRecordId", "error"} THEN
    [node EXCEPT ![action.path[1]] = action.value.s]
  ELSE node

\* LibraryQuery.reduce
LibraryReduce(node, action) ==
  IF isMyCustomAction(action, "queryLibraryUpdate") THEN
    [node EXCEPT !.inputs = setInputs(node.inputs, DslInputs(action.value.dsl)),
                 !.isReady = TRUE]
  ELSE LibrarySuperReduce(node, action)

(***************************************************************************)
(* Object identity.  A heap is a sequence of objects and a reference is an *)
(* index into it; a constructor or a copy appends an object, an assignment *)
(* to a field of an existing object replaces the object at its index.      *)
(* An operation on the heap returns [heap |-> the heap after it,           *)
(* ref |-> the reference it returns, thrown |-> whether it ended with an   *)
(* error instead].                                                         *)
(***************************************************************************)
Return(heap, obj) == [heap |-> heap, ref |-> obj, thrown |-> FALSE]

Throw(heap, obj) == [heap |-> heap, ref |-> obj, thrown |-> TRUE]

Alloc(heap, object) == Return(Append(heap, object), Len(heap) + 1)

\* setFieldsNoTypeCheck(obj, fields): a copy of obj with the fields replaced
setFieldsNoTypeCheck(heap, obj, fields) == Alloc(heap, fields @@ heap[obj])

\* a valueComp, stateComp or other leaf holding value
Leaf(value) == [kind |-> "leaf", value |-> value]

\* the InputsComp object of a node: its own fields params, children, inputs
InputsObject(node) ==
  [kind |-> "inputs", params |-> node.params, children |-> node.children,
   inputs |-> node.inputs]

\* the references of the children of the root of HeapOf
RootChildren ==
  [libraryQueryId |-> 1, libraryQueryRecordId |-> 2, inputs |-> 3, error |-> 4]

RootRef == 5

\* the objects of a LibraryQuery tree: one per child of childrenMap, and the
\* LibraryQuery itself with its children map, isReady and value
HeapOf(node) ==
  <<Leaf(node.libraryQueryId),
    Leaf(node.libraryQueryRecordId),
    InputsObject(node.inputs),
    Leaf(node.error),
    [kind |-> "library", children |-> RootChildren,
     isReady |-> node.isReady, value |-> node.value]>>

\* the tree below the LibraryQuery object obj, as a value
Deref(heap, obj) ==
  LET children == heap[obj].children
      inputs == heap[children.inputs]
  IN [libraryQueryId       |-> heap[children.libraryQueryId].value,
      libraryQueryRecordId |-> heap[children.libraryQueryRecordId].value,
      inputs               |-> [params |-> inputs.params, children |-> inputs.children,
                                inputs |-> inputs.inputs],
      error                |-> heap[children.error].value,
      isReady              |-> heap[obj].isReady,
      value                |-> heap[obj].value]

\* setInputs that assigns the inputs list to the receiver before it copies
setInputsAtPatchingThis(heap, obj, inputs) ==
  setFieldsNoTypeCheck([heap EXCEPT ![obj].inputs = inputs], obj,
                       [children |-> setInputs(heap[obj], inputs).children,
                        inputs   |-> inputs])

\* InputsComp.setInputs on the object obj
setInputsAt(heap, obj, inputs) ==
  setFieldsNoTypeCheck(heap, obj,
                       [children |-> setInputs(heap[obj], inputs).children,
                        inputs   |-> inputs])

\* reduce of a leaf: a change-value action gives a new leaf, any other
\* action the leaf itself
LeafReduceAt(heap, obj, action) ==
  IF /\ action.type = "CHANGE_VALUE"
     /\ action.path = <<>>
     /\ action.value.t = "str"
  THEN Alloc(heap, Leaf(action.value.s))
  ELSE Return(heap, obj)

\* reduce of the InputsComp obj: an action routed to one of its children
\* gives a copy with that child replaced
InputsReduceAt(heap, obj, action) ==
  IF /\ "value" \in DOMAIN action
     /\ Len(action.path) = 1
     /\ Has(heap[obj].children, action.path[1])
     /\ action.value.t = "str"
  THEN setFieldsNoTypeCheck(heap, obj,
                            [children |-> InputsReduce(heap[obj], action).children])
  ELSE Return(heap, obj)

\* an action that is routed to a child
isChildAction(action) == action.path # <<>>

\* the action is routed to a child key the children map does not have
RoutingError(children, action) ==
  isChildAction(action) /\ action.path[1] \notin DOMAIN children

\* the child of obj the action is routed to reduces it; a copy of obj holds
\* the new child in its place and every other child as it was
ReduceChildAt(heap, obj, action) ==
  LET key == action.path[1]
      child == heap[obj].children[key]
      childAction == [action EXCEPT !.path = Tail(action.path)]
      reduced == IF key = "inputs" THEN InputsReduceAt(heap, child, childAction)
                 ELSE LeafReduceAt(heap, child, childAction)
  IN IF reduced.ref = child THEN Return(heap, obj)
     ELSE setFieldsNoTypeCheck(
            reduced.heap, obj,
            [children |-> [heap[obj].children EXCEPT ![key] = reduced.ref]])

\* reduce that drops an action routed to an unknown child without a word
LibrarySuperReduceAtSilent(heap, obj, action) ==
  IF ~isChildAction(action) \/ RoutingError(heap[obj].children, action)
  THEN Return(heap, obj)
  ELSE ReduceChildAt(heap, obj, action)

\* simpleMultiComp.reduce on the object obj: an action routed to a child of
\* the schema is reduced by that child, an action routed to no child of the
\* schema is rejected with a routing error, and an action that is not
\* routed gives obj itself
LibrarySuperReduceAt(heap, obj, action) ==
  IF ~isChildAction(action) THEN Return(heap, obj)
  ELSE IF RoutingError(heap[obj].children, action) THEN Throw(heap, obj)
  ELSE ReduceChildAt(heap, obj, action)

\* reduce that builds every child of the new children map anew
LibraryReduceAtRebuildingChildren(heap, obj, action) ==
  IF isMyCustomAction(action, "queryLibraryUpdate") THEN
    LET inputs == setInputsAt(heap, heap[obj].children.inputs,
                              DslInputs(action.value.dsl))
        given == Deref(heap, obj)
        fresh == inputs.heap \o <<Leaf(given.libraryQueryId),
                                  Leaf(given.libraryQueryRecordId),
                                  Leaf(given.error)>>
    IN setFieldsNoTypeCheck(
         fresh, obj,
         [children |-> [libraryQueryId       |-> Len(inputs.heap) + 1,
                        libraryQueryRecordId |-> Len(inputs.heap) + 2,
                        inputs               |-> inputs.ref,
                        error                |-> Len(inputs.heap) + 3],
          isReady  |-> TRUE])
  ELSE LibrarySuperReduceAt(heap, obj, action)

\* reduce without the test for queryLibraryUpdate: every action sets the inputs
LibraryReduceAtAlwaysUpdating(heap, obj, action) ==
  LET declared == IF isMyCustomAction(action, "queryLibraryUpdate")
                  THEN DslInputs(action.value.dsl) ELSE <<>>
      inputs == setInputsAt(heap, heap[obj].children.inputs, declared)
  IN setFieldsNoTypeCheck(
       inputs.heap, obj,
       [children |-> [heap[obj].children EXCEPT !.inputs = inputs.ref],
        isReady  |-> TRUE])

\* reduce that is ready only when the action carries a document
LibraryReduceAtReadyWithDocument(heap, obj, action) ==
  IF isMyCustomAction(action, "queryLibraryUpdate") THEN
    LET inputs == setInputsAt(heap, heap[obj].children.inputs,
                              DslInputs(action.value.dsl))
    IN setFieldsNoTypeCheck(
         inputs.heap, obj,
         [children |-> [heap[obj].children EXCEPT !.inputs = inputs.ref],
          isReady  |-> action.value.dsl # UndefVal])
  ELSE LibrarySuperReduceAt(heap, obj, action)

\* LibraryQuery.reduce on the object obj
LibraryReduceAt(heap, obj, action) ==
  IF isMyCustomAction(action, "queryLibraryUpdate") THEN
    LET inputs == setInputsAt(heap, heap[obj].children.inputs,
                              DslInputs(action.value.dsl))
    IN setFieldsNoTypeCheck(
         inputs.heap, obj,
         [children |-> [heap[obj].children EXCEPT !.inputs = inputs.ref],
          isReady  |-> TRUE])
  ELSE LibrarySuperReduceAt(heap, obj, action)

(***************************************************************************)
(* PropertyView of LibraryQuery and the query-library store                *)
(***************************************************************************)
QueryIds == {"q1", "q2"}

RecordIds == {"latest", "r1"}

Selections == QueryIds \X RecordIds

ErrorMessages == {"failed"}

\* the documents the query-library service holds for a selection
Catalogue(selection) ==
  IF selection = <<"q1", "latest">> THEN {Dsl(<<InputItem("a"), InputItem("b")>>)}
  ELSE IF selection = <<"q1", "r1">> THEN {Dsl(<<InputItem("a"), InputItem("c")>>)}
  ELSE IF selection = <<"q2", "latest">> THEN {DslWithoutInputs}
  ELSE {}

Selection(node) == <<node.libraryQueryId, node.libraryQueryRecordId>>

\* the lookup with the record id left out
infoOfLatest(node, record) ==
  IF <<node.libraryQueryId, "latest">> \in DOMAIN record
  THEN record[<<node.libraryQueryId, "latest">>] ELSE UndefVal

\* info = queryLibraryRecord[queryId]?.[recordId]
info(node, record) ==
  IF Selection(node) \in DOMAIN record THEN record[Selection(node)] ELSE UndefVal

\* getInputsView that tests the error leaf before the document
getInputsViewErrorFirst(node, record) ==
  IF node.libraryQueryId = "" THEN "nothing"
  ELSE IF node.error # "" THEN "error"
  ELSE IF info(node, record) = UndefVal THEN "spinner"
  ELSE "inputs"

\* getInputsView: what the inputs area shows
getInputsView(node, record) ==
  IF node.libraryQueryId = "" THEN "nothing"
  ELSE IF info(node, record) = UndefVal THEN
    IF node.error # "" THEN "error" ELSE "spinner"
  ELSE "inputs"

\* the effects that follow a render in which the node went from before to
\* node and the store from recordBefore to record: the update effect runs
\* when info changed, the fetch effect when queryId or recordId changed
AfterRender(before, recordBefore, node, record) ==
  [node  |-> IF info(node, record) # info(before, recordBefore)
             THEN LibraryReduce(node, QueryLibraryUpdateAction(info(node, record)))
             ELSE node,
   fetch |-> IF /\ Selection(node) # Selection(before)
                /\ node.libraryQueryId # ""
                /\ node.libraryQueryRecordId # ""
             THEN {Selection(node)} ELSE {}]

\* the fetch effect can issue its requests
CanFetch(requests) == Cardinality(pending \cup requests) <= MaxPending

\* the three effects of the first render; first is the id of the first
\* library query of the dropdown, if there is one
Mount ==
  /\ ~mounted
  /\ \E first \in QueryIds \cup {Undefined} :
       LET updated == LibraryReduce(lq, QueryLibraryUpdateAction(info(lq, queryLibraryRecord)))
           fetch == IF lq.libraryQueryId # "" /\ lq.libraryQueryRecordId # ""
                    THEN {Selection(lq)} ELSE {}
           chosen == IF lq.libraryQueryId = "" /\ first # Undefined
                     THEN LibraryReduce(updated, changeChildAction("libraryQueryId", StrVal(first)))
                     ELSE updated
           after == AfterRender(updated, queryLibraryRecord, chosen, queryLibraryRecord)
       IN /\ CanFetch(fetch \cup after.fetch)
          /\ lq' = after.node
          /\ pending' = pending \cup fetch \cup after.fetch
  /\ mounted' = TRUE
  /\ lqEvent' = [op |-> "mount", current |-> TRUE]
  /\ UNCHANGED <<lqGiven, queryLibraryRecord>>

\* a dispatch from the mounted view, and the render that follows it
ViewDispatch(action, op) ==
  /\ mounted
  /\ \E after \in {AfterRender(lq, queryLibraryRecord,
                                LibraryReduce(lq, action), queryLibraryRecord)} :
        /\ CanFetch(after.fetch)
        /\ lq' = after.node
        /\ pending' = pending \cup after.fetch
  /\ lqEvent' = [op |-> op, current |-> TRUE]
  /\ UNCHANGED <<lqGiven, mounted, queryLibraryRecord>>

\* onChange of the query dropdown
SelectQuery ==
  \E value \in QueryIds :
    ViewDispatch(changeChildAction("libraryQueryId", StrVal(value)), "selectQuery")

\* onChange of the version dropdown
SelectRecord ==
  \E value \in RecordIds :
    ViewDispatch(changeChildAction("libraryQueryRecordId", StrVal(value)), "selectRecord")

\* the editor of an input dispatches a new value
EditLibraryInput ==
  /\ getInputsView(lq, queryLibraryRecord) = "inputs"
  /\ \E k \in Keys(lq.inputs.children), v \in InputTexts \cup {""} :
       ViewDispatch(wrapChildAction("inputs", changeChildAction(k, StrVal(v))), "edit")

\* a fetch completes: the store keeps the document under the selection the
\* fetch was made for, and the view renders again when it is mounted
FetchSuccess ==
  \E selection \in pending : \E dsl \in Catalogue(selection) :
    \E record \in {[queryLibraryRecord EXCEPT ![selection] = dsl]} :
    \E after \in {AfterRender(lq, queryLibraryRecord, lq, record)} :
       /\ queryLibraryRecord' = record
       /\ lq' = IF mounted THEN after.node ELSE lq
       /\ pending' = pending \ {selection}
       /\ lqEvent' = [op |-> "fetchSuccess", current |-> selection = Selection(lq)]
       /\ UNCHANGED <<lqGiven, mounted>>

\* a fetch fails: onErrorCallback dispatches the message to the error child
FetchError ==
  \E selection \in pending : \E message \in ErrorMessages :
    /\ lq' = LibraryReduce(lq, wrapChildAction("error", changeValueAction(StrVal(message))))
    /\ pending' = pending \ {selection}
    /\ lqEvent' = [op |-> "fetchError", current |-> selection = Selection(lq)]
    /\ UNCHANGED <<lqGiven, mounted, queryLibraryRecord>>

\* the values a LibraryQuery is constructed from: none, or a saved value
LibraryValues ==
  {UndefVal} \cup
  {LibraryValue(q, r, ObjVal(saved)) :
     q \in QueryIds, r \in RecordIds, saved \in SavedInputs}

LibraryNext ==
  /\ \/ Mount
     \/ SelectQuery
     \/ SelectRecord
     \/ EditLibraryInput
     \/ FetchSuccess
     \/ FetchError
  /\ lqJson' = LibraryToJsonValue(lq')

(***************************************************************************)
(* LibraryQuery.reduce called by any client of the node                    *)
(***************************************************************************)
\* the record documents a queryLibraryUpdate action can carry
Documents == {UndefVal} \cup UNION {Catalogue(selection) : selection \in Selections}

\* a child key the schema of LibraryQuery does not have
UnknownKeys == {"zzz"}

\* a custom action of another node type
otherCustomAction == customAction([type |-> "triggerQuery"])

\* no call of reduce yet: the heap holds the tree of the constructed node
NoReduce(node) ==
  [action |-> [type |-> "INIT", path |-> <<>>],
   before |-> HeapOf(node), heap |-> HeapOf(node), ref |-> RootRef, thrown |-> FALSE]

\* lq.reduce(action): the tree of lq is on the heap, reduce returns a
\* reference, and the node at that reference is the next lq
Reduce(action) ==
  \E before \in {HeapOf(lq)} :
  \E result \in {LibraryReduceAt(before, RootRef, action)} :
  \E node \in {Deref(result.heap, result.ref)} :
     /\ rd' = [action |-> action, before |-> before, heap |-> result.heap,
               ref |-> result.ref, thrown |-> result.thrown]
     /\ lq' = node
     /\ lqJson' = LibraryToJsonValue(node)
     /\ lqEvent' = [op |-> "reduce", current |-> TRUE]
     /\ UNCHANGED <<lqGiven, mounted, queryLibraryRecord, pending>>

\* the update effect's action
ReduceQueryLibraryUpdate ==
  \E dsl \in Documents : Reduce(QueryLibraryUpdateAction(dsl))

\* the action of the query dropdown
ReduceSelectQuery ==
  \E value \in QueryIds : Reduce(changeChildAction("libraryQueryId", StrVal(value)))

\* the action of the version dropdown
ReduceSelectRecord ==
  \E value \in RecordIds : Reduce(changeChildAction("libraryQueryRecordId", StrVal(value)))

\* onErrorCallback of the fetch: children.error.dispatchChangeValueAction
ReduceFetchError ==
  \E message \in ErrorMessages :
    Reduce(wrapChildAction("error", changeValueAction(StrVal(message))))

\* the action of the editor of an input
ReduceEditInput ==
  \E k \in Keys(lq.inputs.children), v \in InputTexts \cup {""} :
    Reduce(wrapChildAction("inputs", changeChildAction(k, StrVal(v))))

\* an action routed to a child key the node does not have
ReduceUnknownChild ==
  \E k \in UnknownKeys, v \in InputTexts : Reduce(changeChildAction(k, StrVal(v)))

\* an action that is not routed and is not queryLibraryUpdate
ReduceUnrecognized ==
  \E action \in {executeQueryAction, otherCustomAction} : Reduce(action)

\* the values the node is constructed from
ReduceValues ==
  {UndefVal} \cup {LibraryValue("q1", "latest", ObjVal(saved)) : saved \in SavedInputs}

ReduceNext ==
  \/ ReduceQueryLibraryUpdate
  \/ ReduceSelectQuery
  \/ ReduceSelectRecord
  \/ ReduceFetchError
  \/ ReduceEditInput
  \/ ReduceUnknownChild
  \/ ReduceUnrecognized

(***************************************************************************)
(* LibraryQuery: properties                                                *)
(***************************************************************************)
\* the document the store holds for a selection, if any
Stored(record, selection) ==
  IF selection \in DOMAIN record THEN record[selection] ELSE UndefVal

StoredSelections == {s \in Selections : Stored(queryLibraryRecord, s) # UndefVal}

\* C5: a document that arrives for a selection other than the current one
\* leaves the node as it is, and while the view is mounted the keys of the
\* inputs are the names the document stored for the current selection
\* declares (none when no document is stored for it)
C5_StaleDocumentDiscarded ==
  [][/\ (/\ queryLibraryRecord' # queryLibraryRecord
         /\ Stored(queryLibraryRecord', Selection(lq)) =
              Stored(queryLibraryRecord, Selection(lq)))
        => lq' = lq
     /\ mounted' =>
          Keys(lq'.inputs.children) =
            Names(DslInputs(Stored(queryLibraryRecord', Selection(lq'))))
    ]_vars

\* the only document stored arrived after the selection had moved on, and it
\* declares other inputs than the node has
C5_Witness ==
  /\ mounted
  /\ lqEvent = [op |-> "fetchSuccess", current |-> FALSE]
  /\ Cardinality(StoredSelections) = 1
  /\ \A s \in StoredSelections :
       /\ s # Selection(lq)
       /\ Names(DslInputs(Stored(queryLibraryRecord, s))) # Keys(lq.inputs.children)

\* C6: an error that arrives for a selection other than the current one is
\* discarded: it leaves the error leaf as it is and the inputs area does not
\* start to show an error
C6_StaleErrorDiscarded ==
  [][(lqEvent'.op = "fetchError" /\ ~lqEvent'.current) =>
       /\ lq'.error = lq.error
       /\ getInputsView(lq, queryLibraryRecord) # "error"
            => getInputsView(lq', queryLibraryRecord') # "error"
    ]_vars

\* deep equality of a serialized value and a value of the schema
JsonEq(json, value) ==
  /\ value.t = "obj"
  /\ json.libraryQueryId = value.libraryQueryId
  /\ json.libraryQueryRecordId = value.libraryQueryRecordId
  /\ json.inputs.t = "obj"
  /\ value.inputs.t = "obj"
  /\ Keys(json.inputs.o) = Keys(value.inputs.o)
  /\ \A k \in Keys(value.inputs.o) : Get(json.inputs.o, k) = Get(value.inputs.o, k)

\* C7: toJsonValue() of a LibraryQuery just constructed from a value with
\* libraryQueryId, libraryQueryRecordId and inputs is deep-equal to that value
C7_RoundTrip ==
  (lqEvent.op = "new" /\ lqGiven.t = "obj") => JsonEq(lqJson, lqGiven)

\* a node just constructed from a saved version r1 with a non-empty input
C7_Witness ==
  /\ lqEvent.op = "new"
  /\ lqGiven.t = "obj"
  /\ lqGiven.libraryQueryRecordId = "r1"
  /\ \E k \in Keys(lqGiven.inputs.o) : Get(lqGiven.inputs.o, k) \in InputTexts
  /\ lqJson.libraryQueryRecordId = "r1"

\* C18: as long as no record document has arrived, so that no
\* queryLibraryUpdate can have carried one, the inputs of toJsonValue() are
\* the inputs given to the constructor, also after the update the view
\* dispatches when it mounts
C18_SavedInputsKeptWhilePending ==
  (StoredSelections = {} /\ lqGiven.t = "obj") => lqJson.inputs = lqGiven.inputs

\* C20: the inputs area shows nothing exactly when libraryQueryId is empty;
\* else the error exactly when no document is stored for the selection and
\* the error leaf is not empty, the spinner exactly when none is stored and
\* the error leaf is empty, and the inputs exactly when one is stored,
\* whatever the error leaf holds
C20_InputsViewOutcome ==
  LET shown == getInputsView(lq, queryLibraryRecord)
      stored == Stored(queryLibraryRecord, Selection(lq)) # UndefVal
      chosen == lq.libraryQueryId # ""
  IN /\ shown \in {"nothing", "error", "spinner", "inputs"}
     /\ shown = "nothing" <=> ~chosen
     /\ shown = "error" <=> (chosen /\ ~stored /\ lq.error # "")
     /\ shown = "spinner" <=> (chosen /\ ~stored /\ lq.error = "")
     /\ shown = "inputs" <=> (chosen /\ stored)

\* the document of the selection is stored while the error leaf holds the
\* message of a failed fetch
C20_Witness ==
  /\ mounted
  /\ lq.error # ""
  /\ Stored(queryLibraryRecord, Selection(lq)) # UndefVal
  /\ getInputsView(lq, queryLibraryRecord) = "inputs"

(***************************************************************************)
(* LibraryQuery.reduce: properties                                         *)
(***************************************************************************)
IsUpdate(action) == isMyCustomAction(action, "queryLibraryUpdate")

\* the node reduce was called on, and its InputsComp, as they were
Receiver == rd.before[RootRef]

ReceiverInputs == rd.before[Receiver.children.inputs]

ReceiverTree == Deref(rd.before, RootRef)

\* the object reduce returned
Returned == rd.heap[rd.ref]

SiblingKeys == {"libraryQueryId", "libraryQueryRecordId", "error"}

C12_SiblingsShared ==
  /\ IsUpdate(rd.action) =>
       /\ \A k \in SiblingKeys :
            /\ Returned.children[k] = Receiver.children[k]
            /\ rd.heap[Returned.children[k]] = rd.before[Receiver.children[k]]
       /\ Returned.children.inputs # Receiver.children.inputs
  /\ (isChildAction(rd.action) /\ ~rd.thrown) =>
       \A k \in DOMAIN Receiver.children \ {rd.action.path[1]} :
         Returned.children[k] = Receiver.children[k]

\* queryLibraryUpdate changed the inputs of a node that has a selection and
\* an error other than the defaults
C12_Witness ==
  /\ IsUpdate(rd.action)
  /\ lq.libraryQueryId = "q2"
  /\ lq.libraryQueryRecordId = "r1"
  /\ lq.error # ""
  /\ lq.inputs.children # ReceiverTree.inputs.children

IsErrorCallback(action) ==
  action.type = "CHANGE_VALUE" /\ action.path = <<"error">>

\* C13: the error callback puts its message into the error leaf and changes
\* nothing else, nothing is thrown, and a node whose error leaf holds a
\* message still applies a change of the query, a change of the version and
\* a queryLibraryUpdate
C13_FetchFailureLocalized ==
  /\ IsErrorCallback(rd.action) =>
       /\ ~rd.thrown
       /\ lq.error = rd.action.value.s
       /\ [lq EXCEPT !.error = ReceiverTree.error] = ReceiverTree
  /\ ReceiverTree.error # "" =>
       /\ rd.action.path = <<"libraryQueryId">> =>
            ~rd.thrown /\ lq.libraryQueryId = rd.action.value.s
       /\ rd.action.path = <<"libraryQueryRecordId">> =>
            ~rd.thrown /\ lq.libraryQueryRecordId = rd.action.value.s
       /\ IsUpdate(rd.action) =>
            /\ ~rd.thrown
            /\ lq.isReady
            /\ Keys(lq.inputs.children) = Names(DslInputs(rd.action.value.dsl))

\* after a failed fetch and a change of the query, queryLibraryUpdate gave
\* the node other inputs
C13_Witness ==
  /\ ReceiverTree.error # ""
  /\ ReceiverTree.libraryQueryId = "q2"
  /\ IsUpdate(rd.action)
  /\ Keys(lq.inputs.children) # Keys(ReceiverTree.inputs.children)
  /\ lq.error = ReceiverTree.error

\* C16: an action routed to a child key other than libraryQueryId,
\* libraryQueryRecordId, inputs, error is rejected with a routing error;
\* any other action the node does not recognize is not an error and returns
\* the receiver
C16_UnknownRoutingRejected ==
  /\ (/\ isChildAction(rd.action)
      /\ rd.action.path[1] \notin {"libraryQueryId", "libraryQueryRecordId",
                                   "inputs", "error"})
       => rd.thrown /\ lq = ReceiverTree
  /\ (~isChildAction(rd.action) /\ ~IsUpdate(rd.action)) =>
       /\ ~rd.thrown
       /\ rd.ref = RootRef
       /\ rd.heap = rd.before

\* an action routed to zzz was rejected by a node with a selection and inputs
C16_Witness ==
  /\ isChildAction(rd.action)
  /\ rd.action.path[1] = "zzz"
  /\ rd.thrown
  /\ lq.isReady
  /\ lq.inputs.children # <<>>

\* C17: while isReady is false the inputs of toJsonValue() are the inputs of
\* the value given to the constructor, whatever the children hold; once it
\* is true they are the values of the children; the two ids are always the
\* values of their children
C17_ToJsonValueDependsOnIsReady ==
  /\ lqJson.libraryQueryId = lq.libraryQueryId
  /\ lqJson.libraryQueryRecordId = lq.libraryQueryRecordId
  /\ ~lq.isReady => lqJson.inputs = ValueInputs(lqGiven)
  /\ lq.isReady => lqJson.inputs = ObjVal(InputsToJsonValue(lq.inputs))

\* a node that is not ready whose input was edited away from the given value
C17_Witness ==
  /\ ~lq.isReady
  /\ lqGiven.t = "obj"
  /\ lq.libraryQueryId = "q2"
  /\ lq.inputs.children # lqGiven.inputs.o
  /\ lqJson.inputs = lqGiven.inputs

\* C19: a constructed node is not ready, and no action reduced by a ready
\* node gives a node that is not ready
C19_IsReadyMonotone ==
  [][/\ lqEvent.op = "new" => ~lq.isReady
     /\ lq.isReady => lq'.isReady
    ]_vars

\* a ready node reduced a queryLibraryUpdate without a document
C19_Witness ==
  /\ ReceiverTree.isReady
  /\ IsUpdate(rd.action)
  /\ rd.action.value.dsl = UndefVal
  /\ lq.isReady

(***************************************************************************)
(* OrganizationServiceImpl (server, domain/organization/service).          *)
(*                                                                         *)
(* A Java String reference is a record: null, or a sequence of one-        *)
(* character strings.  An Organization reference is a record with the      *)
(* fields the service reads and writes.  A Mono chain is a process: its    *)
(* position is the publisher that is subscribed and has not completed.     *)
(* The collaborating services are known by their interface only: the       *)
(* publisher a method returns does its work when it is subscribed, and     *)
(* either completes or signals an error.                                   *)
(***************************************************************************)
\* number of create calls that reach repository.save
MaxOrgs == 2

\* number of assets assetService.upload stores
MaxAssets == 2

Null == [null |-> TRUE, chars |-> <<>>]

Str(chars) == [null |-> FALSE, chars |-> chars]

Whitespace == {" "}

\* StringUtils.isEmpty
isEmpty(cs) == cs.null \/ Len(cs.chars) = 0

\* StringUtils.isBlank
isBlank(cs) == cs.null \/ \A i \in 1..Len(cs.chars) : cs.chars[i] \in Whitespace

\* StringUtils.isNotBlank
isNotBlank(cs) == ~isBlank(cs)

\* new Organization(): every field is null
newOrganization ==
  [isNull |-> FALSE, id |-> Null, state |-> "NULL", logoAssetId |-> Null]

\* the reference null, of type Organization
NullOrganization ==
  [isNull |-> TRUE, id |-> Null, state |-> "NULL", logoAssetId |-> Null]

IdDigits == <<"1", "2", "3", "4", "5">>

\* the id Mongo gives the n-th document inserted without one
NewOrgId(n) == Str(<<"#", IdDigits[n]>>)

\* the id of the n-th asset stored
NewAssetId(n) == Str(<<"a", IdDigits[n]>>)

\* the ids a caller puts on the organization it hands to create
GivenIds == {Null, Str(<<" ">>), Str(<<"o">>)}

CreateInputs ==
  {NullOrganization} \cup {[newOrganization EXCEPT !.id = id] : id \in GivenIds}

UserIds == {"u1"}

\* Mono signals
Value(org, bool) == [kind |-> "value", error |-> "", org |-> org, bool |-> bool]

Err(code) == [kind |-> "error", error |-> code, org |-> NullOrganization, bool |-> FALSE]

NoResult == [kind |-> "none", error |-> "", org |-> NullOrganization, bool |-> FALSE]

\* the documents and rows the services hold
Stores ==
  [repository |-> repository, datasources |-> datasources,
   groups |-> groups, members |-> members]

\* no call has been made
NoCall ==
  [op |-> "none", pc |-> "idle", given |-> NullOrganization,
   organization |-> NullOrganization, creatorId |-> "", newOrg |-> NullOrganization,
   saved |-> FALSE, started |-> <<>>, completed |-> <<>>, result |-> NoResult,
   before |-> [repository |-> <<>>, datasources |-> <<>>, groups |-> <<>>, members |-> <<>>],
   organizationId |-> Null, prevLogo |-> Null, uploaded |-> Null]

\* repository.save: insert, or replace the document of the same id
save(documents, organization, n) ==
  LET doc == IF organization.id.null
             THEN [organization EXCEPT !.id = NewOrgId(n)]
             ELSE organization
      at == {i \in DOMAIN documents : documents[i].id = doc.id}
  IN  [saved |-> doc,
       repository |-> IF at = {}
                      THEN Append(documents, doc)
                      ELSE [i \in DOMAIN documents |-> IF i \in at THEN doc ELSE documents[i]]]

\* mongoUpsertHelper.updateById: set the non-null fields of the partial
\* resource on the document of that id
updateById(documents, partial, id) ==
  [i \in DOMAIN documents |->
     IF documents[i].id = id
     THEN [documents[i] EXCEPT
             !.state = IF partial.state = "NULL" THEN @ ELSE partial.state,
             !.logoAssetId = IF partial.logoAssetId.null THEN @ ELSE partial.logoAssetId]
     ELSE documents[i]]

\* assetService.remove
remove(stored, assetId) == {a \in stored : a.id # assetId}

\* create, the test of the deferred block: only a null organization is refused
createRejectsNullOnly(organization) == organization.isNull

\* create, the test of the deferred block
createRejects(organization) ==
  organization.isNull \/ isNotBlank(organization.id)

\* onOrgCreated with the groups made before the datasources
onOrgCreatedGroupsFirst ==
  <<"createAllUserGroup", "createDevGroup", "createEmptyRestDatasource",
    "createOpenblocksApiDatasource", "setOrgAdmin">>

\* onOrgCreated: the publishers chained by then, in subscription order
onOrgCreated ==
  <<"createEmptyRestDatasource", "createOpenblocksApiDatasource",
    "createAllUserGroup", "createDevGroup", "setOrgAdmin">>

\* create is subscribed: the deferred block runs, and repository.save is
\* subscribed unless the block signals an error
Create ==
  /\ call.pc \in {"idle", "done"}
  /\ counters.creates < MaxOrgs
  /\ \E given \in CreateInputs, creatorId \in UserIds :
       IF createRejects(given)
       THEN /\ call' = [NoCall EXCEPT !.op = "create", !.pc = "done", !.given = given,
                                      !.creatorId = creatorId, !.before = Stores,
                                      !.result = Err("INVALID_PARAMETER")]
            /\ UNCHANGED counters
       ELSE /\ call' = [NoCall EXCEPT !.op = "create", !.pc = "save", !.given = given,
                                      !.organization = [given EXCEPT !.state = "ACTIVE"],
                                      !.creatorId = creatorId, !.before = Stores]
            /\ counters' = [counters EXCEPT !.creates = @ + 1]
  /\ UNCHANGED <<repository, datasources, groups, members, assets>>

\* repository.save completes: onOrgCreated is called with the saved
\* organization and its first publisher is subscribed
SaveCompletes ==
  /\ call.pc = "save"
  /\ \E r \in {save(repository, call.organization, counters.creates)} :
       /\ repository' = r.repository
       /\ call' = [call EXCEPT !.pc = "steps", !.newOrg = r.saved, !.saved = TRUE,
                               !.started = <<onOrgCreated[1]>>]
  /\ UNCHANGED <<datasources, groups, members, assets, counters>>

\* repository.save signals an error: flatMap passes it on
SaveFails ==
  /\ call.pc = "save"
  /\ call' = [call EXCEPT !.pc = "done", !.result = Err("FAILURE")]
  /\ UNCHANGED <<repository, datasources, groups, members, assets, counters>>

\* the publisher that is subscribed completes, having done its work: then
\* subscribes the next one, thenReturn emits the organization after the last
StepCompletes ==
  /\ call.pc = "steps"
  /\ \E step \in {call.started[Len(call.started)]} :
       /\ datasources' =
            CASE step = "createEmptyRestDatasource" ->
                   Append(datasources, [type |-> "REST_API", organizationId |-> call.newOrg.id])
              [] step = "createOpenblocksApiDatasource" ->
                   Append(datasources, [type |-> "OPENBLOCKS_API", organizationId |-> call.newOrg.id])
              [] OTHER -> datasources
       /\ groups' =
            CASE step = "createAllUserGroup" ->
                   Append(groups, [kind |-> "allUser", organizationId |-> call.newOrg.id])
              [] step = "createDevGroup" ->
                   Append(groups, [kind |-> "dev", organizationId |-> call.newOrg.id])
              [] OTHER -> groups
       /\ members' =
            IF step = "setOrgAdmin"
            THEN Append(members, [orgId |-> call.newOrg.id, userId |-> call.creatorId,
                                  role |-> "ADMIN"])
            ELSE members
       /\ call' =
            IF Len(call.started) < Len(onOrgCreated)
            THEN [call EXCEPT !.completed = Append(@, step),
                              !.started = Append(@, onOrgCreated[Len(call.started) + 1])]
            ELSE [call EXCEPT !.completed = Append(@, step), !.pc = "done",
                              !.result = Value(call.newOrg, TRUE)]
  /\ UNCHANGED <<repository, assets, counters>>

\* the publisher that is subscribed signals an error: then passes it on
\* without subscribing the publishers after it
StepFails ==
  /\ call.pc = "steps"
  /\ call' = [call EXCEPT !.pc = "done", !.result = Err("FAILURE")]
  /\ UNCHANGED <<repository, datasources, groups, members, assets, counters>>

\* the ids uploadLogo is called with: those of the stored organizations and
\* one that no organization has
OrganizationIds ==
  {repository[i].id : i \in DOMAIN repository} \cup {Str(<<"n", "o">>)}

\* the logoAssetId stored for an organization, null when there is none
StoredLogo(documents, organizationId) ==
  IF \E i \in DOMAIN documents : documents[i].id = organizationId
  THEN documents[CHOOSE i \in DOMAIN documents : documents[i].id = organizationId].logoAssetId
  ELSE Null

\* uploadLogo, subscribed to its end; fail names the collaborator call that
\* signals an error, if one does.  An asset remembers the organization whose
\* logo it became, or null when the call did not succeed.
UploadLogo ==
  /\ call.pc \in {"idle", "done"}
  /\ counters.uploads < MaxAssets
  /\ \E organizationId \in OrganizationIds,
        fail \in {"none", "upload", "updateById", "remove"} :
       \E assetId \in {NewAssetId(counters.uploads + 1)},
          prevAssetId \in {newOrganization.logoAssetId},
          matched \in {\E i \in DOMAIN repository : repository[i].id = organizationId},
          base \in {[NoCall EXCEPT !.op = "uploadLogo", !.pc = "done",
                                   !.organizationId = organizationId,
                                   !.prevLogo = StoredLogo(repository, organizationId),
                                   !.before = Stores]} :
         IF fail = "upload"
         THEN /\ call' = [base EXCEPT !.result = Err("FAILURE")]
              /\ UNCHANGED <<repository, assets, counters>>
         ELSE /\ counters' = [counters EXCEPT !.uploads = @ + 1]
              /\ IF fail = "updateById"
                 THEN /\ call' = [base EXCEPT !.uploaded = assetId, !.result = Err("FAILURE")]
                      /\ assets' = assets \cup {[id |-> assetId, logoOf |-> Null]}
                      /\ UNCHANGED repository
                 ELSE /\ repository' =
                           updateById(repository,
                                      [newOrganization EXCEPT !.logoAssetId = assetId],
                                      organizationId)
                      /\ IF isEmpty(prevAssetId)
                         THEN /\ call' = [base EXCEPT !.uploaded = assetId,
                                                      !.result = Value(NullOrganization, matched)]
                              /\ assets' = assets \cup
                                   {[id |-> assetId,
                                     logoOf |-> IF matched THEN organizationId ELSE Null]}
                         ELSE IF fail = "remove"
                         THEN /\ call' = [base EXCEPT !.uploaded = assetId,
                                                      !.result = Err("FAILURE")]
                              /\ assets' = assets \cup {[id |-> assetId, logoOf |-> Null]}
                         ELSE /\ call' = [base EXCEPT !.uploaded = assetId,
                                                      !.result = Value(NullOrganization, matched)]
                              /\ assets' = remove(assets, prevAssetId) \cup
                                   {[id |-> assetId,
                                     logoOf |-> IF matched THEN organizationId ELSE Null]}
  /\ UNCHANGED <<datasources, groups, members>>

OrgNext ==
  \/ Create
  \/ SaveCompletes
  \/ SaveFails
  \/ StepCompletes
  \/ StepFails
  \/ UploadLogo

\* the organization carries an id with a character that is not whitespace
HasNonBlankId(organization) ==
  /\ ~organization.id.null
  /\ \E i \in 1..Len(organization.id.chars) : organization.id.chars[i] # " "

\* C22: create refuses a null organization and one that has a non-blank id
\* with INVALID_PARAMETER, and then saves nothing and creates no datasource,
\* group or membership; any other organization is handed to the repository
\* with state ACTIVE and is stored with that state once the save completed
C22_CreateValidation ==
  call.op = "create" =>
    IF call.given.isNull \/ HasNonBlankId(call.given)
    THEN /\ call.pc = "done"
         /\ call.result = Err("INVALID_PARAMETER")
         /\ ~call.saved
         /\ call.started = <<>>
         /\ Stores = call.before
    ELSE /\ call.result.error # "INVALID_PARAMETER"
         /\ call.organization.state = "ACTIVE"
         /\ call.saved =>
              /\ call.newOrg.state = "ACTIVE"
              /\ \E i \in DOMAIN repository : repository[i] = call.newOrg

\* an organization with a non-blank id was refused while another one is stored
C22_Witness ==
  /\ call.op = "create"
  /\ HasNonBlankId(call.given)
  /\ call.result = Err("INVALID_PARAMETER")
  /\ Len(repository) > 0
  /\ Stores = call.before

\* the post-creation steps in the order the claim gives
C23_Order ==
  <<"createEmptyRestDatasource", "createOpenblocksApiDatasource",
    "createAllUserGroup", "createDevGroup", "setOrgAdmin">>

IsPrefix(s, t) == Len(s) <= Len(t) /\ \A i \in 1..Len(s) : s[i] = t[i]

\* how many of the steps that completed are among the named ones
CompletedAmong(names) ==
  Cardinality({i \in DOMAIN call.completed : call.completed[i] \in names})

\* C23: once create has saved the organization the five post-creation steps
\* are subscribed in the fixed order, each only after the one before it
\* completed; the organization is emitted only after all five completed; an
\* error of a step ends create with that error and no later step runs
C23_PostCreationInOrder ==
  (call.op = "create" /\ call.saved) =>
    /\ IsPrefix(call.started, C23_Order)
    /\ IsPrefix(call.completed, call.started)
    /\ Len(call.started) - Len(call.completed) \in {0, 1}
    /\ call.pc = "steps" => Len(call.started) = Len(call.completed) + 1
    /\ call.result.kind = "value" =>
         call.completed = C23_Order /\ call.result.org = call.newOrg
    /\ call.result.kind = "error" =>
         Len(call.completed) < Len(C23_Order) /\ Len(call.started) = Len(call.completed) + 1
    /\ call.pc = "done" => call.result.kind \in {"value", "error"}
    /\ Len(datasources) - Len(call.before.datasources) =
         CompletedAmong({"createEmptyRestDatasource", "createOpenblocksApiDatasource"})
    /\ Len(groups) - Len(call.before.groups) =
         CompletedAmong({"createAllUserGroup", "createDevGroup"})
    /\ Len(members) - Len(call.before.members) = CompletedAmong({"setOrgAdmin"})

\* the dev group could not be created: three steps completed, create failed
\* and no membership was added
C23_Witness ==
  /\ call.op = "create"
  /\ call.saved
  /\ call.result.kind = "error"
  /\ call.started = SubSeq(C23_Order, 1, 4)
  /\ call.completed = SubSeq(C23_Order, 1, 3)
  /\ Len(members) = Len(call.before.members)

\* C24: after uploadLogo succeeded for an organization that had a logo, the
\* organization carries the new asset id and the asset of the previous logo
\* is no longer stored; no organization has more than one logo asset stored
C24_PreviousLogoRemoved ==
  /\ ( /\ call.op = "uploadLogo"
       /\ call.result.kind = "value"
       /\ call.result.bool
       /\ ~isEmpty(call.prevLogo) ) =>
         /\ StoredLogo(repository, call.organizationId) = call.uploaded
         /\ \A a \in assets : a.id # call.prevLogo
  /\ \A i \in DOMAIN repository :
       Cardinality({a \in assets : a.logoOf = repository[i].id}) <= 1

(***************************************************************************)
(* Specifications                                                          *)
(***************************************************************************)
MongoStep == MongoNext /\ UNCHANGED <<inputsVars, libraryVars, reduceVars, orgVars>>

InputsStep == InputsNext /\ UNCHANGED <<mongoVars, libraryVars, reduceVars, orgVars>>

LibraryStep == LibraryNext /\ UNCHANGED <<mongoVars, inputsVars, reduceVars, orgVars>>

ReduceStep == ReduceNext /\ UNCHANGED <<mongoVars, inputsVars, orgVars>>

OrgStep == OrgNext /\ UNCHANGED <<mongoVars, inputsVars, libraryVars, reduceVars>>

\* the state after construction; only the component a specification is
\* about is constructed from a value chosen among several
InitMongo ==
  /\ mq = NewMongoQuery(<<>>)
  /\ mqPrev = NewMongoQuery(<<>>)
  /\ mqAction = [type |-> "INIT", path |-> <<>>]
  /\ mqWrite = FALSE
  /\ mqView = MongoGetView(NewMongoQuery(<<>>))
  /\ ic = NewInputsComp(<<>>)
  /\ icDelta = NoDelta
  /\ icOp = "new"
  /\ icLast = [called |-> FALSE, inputs |-> <<>>]
  /\ icGone = {}
  /\ lqGiven = UndefVal
  /\ lq = NewLibraryQuery(UndefVal)
  /\ lqEvent = [op |-> "new", current |-> TRUE]
  /\ mounted = FALSE
  /\ queryLibraryRecord = [selection \in Selections |-> UndefVal]
  /\ pending = {}
  /\ lqJson = LibraryToJsonValue(NewLibraryQuery(UndefVal))
  /\ rd = NoReduce(NewLibraryQuery(UndefVal))
  /\ repository = <<>>
  /\ datasources = <<>>
  /\ groups = <<>>
  /\ members = <<>>
  /\ assets = {}
  /\ call = NoCall
  /\ counters = [creates |-> 0, uploads |-> 0]

InitInputs ==
  /\ mq = NewMongoQuery(<<>>)
  /\ mqPrev = NewMongoQuery(<<>>)
  /\ mqAction = [type |-> "INIT", path |-> <<>>]
  /\ mqWrite = FALSE
  /\ mqView = MongoGetView(NewMongoQuery(<<>>))
  /\ \E value \in SavedInputs : ic = NewInputsComp(value)
  /\ icDelta = NoDelta
  /\ icOp = "new"
  /\ icLast = [called |-> FALSE, inputs |-> <<>>]
  /\ icGone = {}
  /\ lqGiven = UndefVal
  /\ lq = NewLibraryQuery(UndefVal)
  /\ lqEvent = [op |-> "new", current |-> TRUE]
  /\ mounted = FALSE
  /\ queryLibraryRecord = [selection \in Selections |-> UndefVal]
  /\ pending = {}
  /\ lqJson = LibraryToJsonValue(NewLibraryQuery(UndefVal))
  /\ rd = NoReduce(NewLibraryQuery(UndefVal))
  /\ repository = <<>>
  /\ datasources = <<>>
  /\ groups = <<>>
  /\ members = <<>>
  /\ assets = {}
  /\ call = NoCall
  /\ counters = [creates |-> 0, uploads |-> 0]

InitLibrary ==
  /\ mq = NewMongoQuery(<<>>)
  /\ mqPrev = NewMongoQuery(<<>>)
  /\ mqAction = [type |-> "INIT", path |-> <<>>]
  /\ mqWrite = FALSE
  /\ mqView = MongoGetView(NewMongoQuery(<<>>))
  /\ ic = NewInputsComp(<<>>)
  /\ icDelta = NoDelta
  /\ icOp = "new"
  /\ icLast = [called |-> FALSE, inputs |-> <<>>]
  /\ icGone = {}
  /\ \E value \in LibraryValues : lqGiven = value /\ lq = NewLibraryQuery(value)
  /\ lqEvent = [op |-> "new", current |-> TRUE]
  /\ mounted = FALSE
  /\ queryLibraryRecord = [selection \in Selections |-> UndefVal]
  /\ pending = {}
  /\ lqJson = LibraryToJsonValue(lq)
  /\ rd = NoReduce(NewLibraryQuery(UndefVal))
  /\ repository = <<>>
  /\ datasources = <<>>
  /\ groups = <<>>
  /\ members = <<>>
  /\ assets = {}
  /\ call = NoCall
  /\ counters = [creates |-> 0, uploads |-> 0]

InitReduce ==
  /\ mq = NewMongoQuery(<<>>)
  /\ mqPrev = NewMongoQuery(<<>>)
  /\ mqAction = [type |-> "INIT", path |-> <<>>]
  /\ mqWrite = FALSE
  /\ mqView = MongoGetView(NewMongoQuery(<<>>))
  /\ ic = NewInputsComp(<<>>)
  /\ icDelta = NoDelta
  /\ icOp = "new"
  /\ icLast = [called |-> FALSE, inputs |-> <<>>]
  /\ icGone = {}
  /\ \E value \in ReduceValues : lqGiven = value /\ lq = NewLibraryQuery(value)
  /\ lqEvent = [op |-> "new", current |-> TRUE]
  /\ mounted = FALSE
  /\ queryLibraryRecord = [selection \in Selections |-> UndefVal]
  /\ pending = {}
  /\ lqJson = LibraryToJsonValue(lq)
  /\ rd = NoReduce(lq)
  /\ repository = <<>>
  /\ datasources = <<>>
  /\ groups = <<>>
  /\ members = <<>>
  /\ assets = {}
  /\ call = NoCall
  /\ counters = [creates |-> 0, uploads |-> 0]

\* no organization, datasource, group, membership or asset is stored yet
InitOrg ==
  /\ mq = NewMongoQuery(<<>>)
  /\ mqPrev = NewMongoQuery(<<>>)
  /\ mqAction = [type |-> "INIT", path |-> <<>>]
  /\ mqWrite = FALSE
  /\ mqView = MongoGetView(NewMongoQuery(<<>>))
  /\ ic = NewInputsComp(<<>>)
  /\ icDelta = NoDelta
  /\ icOp = "new"
  /\ icLast = [called |-> FALSE, inputs |-> <<>>]
  /\ icGone = {}
  /\ lqGiven = UndefVal
  /\ lq = NewLibraryQuery(UndefVal)
  /\ lqEvent = [op |-> "new", current |-> TRUE]
  /\ mounted = FALSE
  /\ queryLibraryRecord = [selection \in Selections |-> UndefVal]
  /\ pending = {}
  /\ lqJson = LibraryToJsonValue(NewLibraryQuery(UndefVal))
  /\ rd = NoReduce(NewLibraryQuery(UndefVal))
  /\ repository = <<>>
  /\ datasources = <<>>
  /\ groups = <<>>
  /\ members = <<>>
  /\ assets = {}
  /\ call = NoCall
  /\ counters = [creates |-> 0, uploads |-> 0]

SpecMongo == InitMongo /\ [][MongoStep]_vars

SpecInputs == InitInputs /\ [][InputsStep]_vars

SpecLibrary == InitLibrary /\ [][LibraryStep]_vars

SpecReduce == InitReduce /\ [][ReduceStep]_vars

SpecOrg == InitOrg /\ [][OrgStep]_vars

====
